---- MODULE Spec2Model ----
(***************************************************************************)
(* Rebalancing engine of crypto-tqqq: the position calculator              *)
(* (StrategyService.calculateTargetPosition / calculatePositionDelta),     *)
(* one rebalance cycle (StrategyService.executeRebalancing) with the       *)
(* contract conversion of OKXClient.getPosition, and the daily timer loop  *)
(* (scheduler.ts).                                                         *)
(*                                                                         *)
(* Numbers.  A JavaScript number is a record: a finite value, an infinity  *)
(* or NaN.  Finite position sizes and thresholds are counted in units of   *)
(* 1/Scale (Scale = 100000, one decimal more than the 4 decimals the code  *)
(* rounds to, so that rounding ties and sub-step thresholds exist).        *)
(* Equity and price are counted in whole USDT.  Arithmetic on finite       *)
(* values is exact: the representation error of IEEE-754 doubles is not    *)
(* modelled.                                                               *)
(***************************************************************************)
EXTENDS Integers, Sequences, FiniteSets, TLC

VARIABLES
    config,             \* config.trading / config.scheduler, loaded once
    market,             \* what the exchange answers: equity, price, position
    clock,              \* wall clock (UTC): [day, hour, minute]
    running,            \* the timer loop of startScheduler is installed
    lastExecutionDate,  \* scheduler.ts:158, NoDate for null
    inv,                \* the executeRebalancing invocations, by slot
    startedOn,          \* history: invocations the timer loop started, per date
    bootTime,           \* history: the clock at which startScheduler ran
    calc,               \* the calculator under test (CalcSpec)
    client,             \* the exchange client operation under test (ClientSpec)
    cron,               \* CRON_SCHEDULE and what parseSchedule made of it (ParseSpec)
    env,                \* process.env as config/index.ts reads it (LoadSpec)
    sent,               \* the requests the authenticated client has sent (SignSpec)
    logFile,            \* the day's trade log file and the logTrade calls on it (LogSpec)
    exited              \* process.exit has been called (SignalSpec)

vars == <<config, market, clock, running, lastExecutionDate, inv, startedOn, bootTime, calc, client, cron, env, sent, logFile, exited>>

----------------------------------------------------------------------------
(* JavaScript numbers *)

\* strategy.ts:206 and :232 round to 1/10000
Precision == 10000
Scale == 10 * Precision
Step == Scale \div Precision

Fin(n) == [k |-> "fin", v |-> n]
PosInf == [k |-> "inf", v |-> 1]
NegInf == [k |-> "inf", v |-> -1]
NaN == [k |-> "nan", v |-> 0]
Undefined == [k |-> "undefined", v |-> 0]

IsFin(x) == x.k = "fin"

\* Variant: ties away from zero
MathRoundDiv_halfAway(n, d) ==
    LET a == IF n < 0 THEN -n ELSE n
        b == IF d < 0 THEN -d ELSE d
        q == (2 * a + b) \div (2 * b)
    IN IF (n < 0) = (d < 0) THEN q ELSE -q

\* Math.round(n / d) for integers n and d # 0: nearest integer, ties toward
\* +Infinity (ECMAScript Math.round).
MathRoundDiv(n, d) ==
    IF d > 0 THEN (2 * n + d) \div (2 * d)
    ELSE (-(2 * n) - d) \div (-(2 * d))

\* a - b
Sub(a, b) ==
    IF a.k = "nan" \/ b.k = "nan" THEN NaN
    ELSE IF a.k = "fin" /\ b.k = "fin" THEN Fin(a.v - b.v)
    ELSE IF a.k = "inf" /\ b.k = "fin" THEN a
    ELSE IF a.k = "fin" /\ b.k = "inf" THEN [k |-> "inf", v |-> -b.v]
    ELSE IF a.v = b.v THEN NaN ELSE a

\* Math.abs(a)
MathAbs(a) ==
    IF a.k = "fin" THEN Fin(IF a.v < 0 THEN -a.v ELSE a.v)
    ELSE IF a.k = "inf" THEN PosInf
    ELSE a

\* a >= b (false when either is NaN)
Ge(a, b) ==
    IF a.k = "nan" \/ b.k = "nan" THEN FALSE
    ELSE IF a.k = "fin" /\ b.k = "fin" THEN a.v >= b.v
    ELSE IF a.k = "inf" /\ b.k = "inf" THEN a.v >= b.v
    ELSE IF a.k = "inf" THEN a.v > 0
    ELSE b.v < 0

\* a > 0 (false for NaN)
GtZero(a) == a.k # "nan" /\ a.v > 0

\* Math.round(x * 10000) / 10000 of a value counted in 1/Scale
Round4(x) ==
    IF x.k = "fin" THEN Fin(Step * MathRoundDiv(x.v, Step)) ELSE x

----------------------------------------------------------------------------
(* PositionCalculator: strategy.ts:204-236 *)

\* (equity * leverageMultiplier) / assetPrice, then Math.round(x * 10000) / 10000.
\* equity and assetPrice are finite or NaN (parseFloat results), in whole USDT;
\* the result is a position size in 1/Scale.
calculateTargetPosition_floor(equity, assetPrice) ==
    LET n == equity.v * config.leverageMultiplier IN
    IF equity.k # "fin" \/ assetPrice.k # "fin" THEN NaN
    ELSE IF assetPrice.v = 0
         THEN (IF n > 0 THEN PosInf ELSE IF n < 0 THEN NegInf ELSE NaN)
    ELSE Fin(Step * ((n * Precision) \div assetPrice.v))

\* Variant: the result drifts with the wall clock
calculateTargetPosition_clock(equity, assetPrice) ==
    LET n == equity.v * config.leverageMultiplier IN
    IF equity.k # "fin" \/ assetPrice.k # "fin" THEN NaN
    ELSE IF assetPrice.v = 0
         THEN (IF n > 0 THEN PosInf ELSE IF n < 0 THEN NegInf ELSE NaN)
    ELSE Fin(Step * (MathRoundDiv(n * Precision, assetPrice.v) + clock.minute))

calculateTargetPosition(equity, assetPrice) ==
    LET n == equity.v * config.leverageMultiplier IN
    IF equity.k # "fin" \/ assetPrice.k # "fin" THEN NaN
    ELSE IF assetPrice.v = 0
         THEN (IF n > 0 THEN PosInf ELSE IF n < 0 THEN NegInf ELSE NaN)
    ELSE Fin(Step * MathRoundDiv(n * Precision, assetPrice.v))

\* Variant: the threshold test reads the rounded delta
calculatePositionDelta_roundedCompare(currentPosition, targetPosition) ==
    LET delta == Round4(Sub(targetPosition, currentPosition))
        needsAdjustment == Ge(MathAbs(delta), Fin(config.minAdjustmentSize))
        action == IF ~needsAdjustment THEN "hold"
                  ELSE IF GtZero(delta) THEN "buy"
                  ELSE "sell"
    IN [delta |-> delta, needsAdjustment |-> needsAdjustment, action |-> action]

\* Variant: the operands of the subtraction swapped
calculatePositionDelta_swapped(currentPosition, targetPosition) ==
    LET delta == Sub(currentPosition, targetPosition)
        needsAdjustment == Ge(MathAbs(delta), Fin(config.minAdjustmentSize))
        action == IF ~needsAdjustment THEN "hold"
                  ELSE IF GtZero(delta) THEN "buy"
                  ELSE "sell"
    IN [delta |-> Round4(delta), needsAdjustment |-> needsAdjustment, action |-> action]

calculatePositionDelta(currentPosition, targetPosition) ==
    LET delta == Sub(targetPosition, currentPosition)
        absDelta == MathAbs(delta)
        needsAdjustment == Ge(absDelta, Fin(config.minAdjustmentSize))
        action == IF ~needsAdjustment THEN "hold"
                  ELSE IF GtZero(delta) THEN "buy"
                  ELSE "sell"
    IN [delta |-> Round4(delta),
        needsAdjustment |-> needsAdjustment,
        action |-> action]

----------------------------------------------------------------------------
(* Configuration: config/index.ts:43-49 *)

\* LEVERAGE_MULTIPLIER: Number(env) || 3
Leverages == {-1, 1, 3}
\* MIN_ADJUSTMENT_SIZE: Number(env) || 0.01, in 1/Scale; any non-zero number,
\* a negative one included, passes the || default.
Thresholds == {-10, 3, 10, 1000}

NoDate == -1

\* the calculator's call record before any call (CalcSpec)
NoCall == [fn |-> "none", pc |-> "args", equity |-> NaN, price |-> NaN,
           current |-> NaN, target |-> NaN, delta |-> NaN,
           needsAdjustment |-> FALSE, action |-> "none"]

\* no client operation under test
NoRequest == [op |-> "none", http |-> 0, code |-> "undefined", data |-> "empty",
              pc |-> "none", outcome |-> "none"]

\* the environment has not been read
Unset == <<"undefined">>
NoEnv == [pc |-> "none", LEVERAGE_MULTIPLIER |-> Unset, MIN_ADJUSTMENT_SIZE |-> Unset]

\* no request has been sent
NoSent == <<>>

\* the day's log file does not exist and no logTrade call is under way
NoFile == [exists |-> FALSE, content |-> <<>>, calls |-> <<>>]

\* no schedule string under test
NoCron == [cronSchedule |-> <<>>, pc |-> "none"]

----------------------------------------------------------------------------------------------------------------------------------------------
(* One rebalance cycle: StrategyService.executeRebalancing, strategy.ts:302-368 *)

MaxInv == 2
Slots == 1 .. MaxInv

Fetches == {"equity", "price", "position"}

NoOrderResult == [success |-> TRUE, orderId |-> "undefined", error |-> "undefined"]

\* Variant: the success argument is dropped and the default always taken
createTradeLog_defaultSuccess(assetPrice, accountEquity, currentPosition, targetPosition, delta, action, orderSize, orderId, success, error) ==
    [assetPrice |-> assetPrice, accountEquity |-> accountEquity,
     currentPosition |-> currentPosition, targetPosition |-> targetPosition,
     delta |-> delta, action |-> action, orderSize |-> orderSize,
     orderId |-> orderId, success |-> TRUE, error |-> error]

\* strategy.ts:272-297.  Both call sites pass a boolean for success, so the
\* default of `success ?? true` is never taken.
createTradeLog(assetPrice, accountEquity, currentPosition, targetPosition, delta, action, orderSize, orderId, success, error) ==
    [assetPrice |-> assetPrice, accountEquity |-> accountEquity,
     currentPosition |-> currentPosition, targetPosition |-> targetPosition,
     delta |-> delta, action |-> action, orderSize |-> orderSize,
     orderId |-> orderId, success |-> success, error |-> error]

NoLog == createTradeLog(Undefined, Undefined, Undefined, Undefined, Undefined,
                        "none", Undefined, "undefined", FALSE, "undefined")

NoResult == [success |-> FALSE, tradeLog |-> NoLog, error |-> "none"]

\* got: how many of the three requests Promise.all has resolved with, none
\* until it resolves with all of them; instrument: the outcome
\* of the getInstrument lookup inside getPosition, "none" while there is none;
\* built: history, what the record of step 4 was built on ("hold", or the
\* order "accepted" or "rejected"), "none" while step 4 has not been reached;
\* written: logTrade has written a record of this invocation to the log file
Idle == [pc |-> "idle", caller |-> "none", got |-> 0, instrument |-> "none",
         built |-> "none", written |-> FALSE,
         accountEquity |-> Undefined, assetPrice |-> Undefined,
         currentPosition |-> Undefined, targetPosition |-> Undefined,
         delta |-> Undefined, needsAdjustment |-> FALSE, action |-> "none",
         orderResult |-> NoOrderResult, orders |-> <<>>,
         tradeLog |-> NoLog, thrown |-> "none", result |-> NoResult]

\* strategy.ts:302-309: the three requests of Promise.all are issued
Started(caller) == [Idle EXCEPT !.pc = "fetching", !.caller = caller]

\* Variant: cross margin
OrderRequest_cross(action, orderSize) ==
    [instId |-> "SWAP", tdMode |-> "cross", side |-> action,
     ordType |-> "market", sz |-> orderSize, posSide |-> "long"]

\* strategy.ts:246-255: the order request handed to okxClient.placeOrder.
\* sz is orderSize.toString(), kept as the number it denotes.
OrderRequest(action, orderSize) ==
    [instId |-> "SWAP", tdMode |-> "isolated", side |-> action,
     ordType |-> "market", sz |-> orderSize, posSide |-> "long"]

\* strategy.ts:328-343: steps 4 and 5, the record is built and logTrade called
Record(r) ==
    [r EXCEPT !.pc = "logTrade",
              !.built = IF r.action = "hold" THEN "hold"
                        ELSE IF r.orderResult.success THEN "accepted"
                        ELSE "rejected",
              !.tradeLog = createTradeLog(
                  r.assetPrice, r.accountEquity, r.currentPosition,
                  r.targetPosition, r.delta, r.action,
                  IF r.needsAdjustment THEN MathAbs(r.delta) ELSE Undefined,
                  r.orderResult.orderId, r.orderResult.success,
                  r.orderResult.error)]

\* Variant: the record is built while the order is still pending
Decide_recordFirst(r) ==
    LET targetPosition == calculateTargetPosition(r.accountEquity, r.assetPrice)
        d == calculatePositionDelta(r.currentPosition, targetPosition)
        s == [r EXCEPT !.targetPosition = targetPosition,
                       !.delta = d.delta,
                       !.needsAdjustment = d.needsAdjustment,
                       !.action = d.action]
    IN IF d.needsAdjustment /\ d.action # "hold"
       THEN [Record(s) EXCEPT !.pc = "placeOrder",
                              !.orders = Append(r.orders,
                                                OrderRequest(d.action, MathAbs(d.delta)))]
       ELSE Record(s)

\* strategy.ts:311-326: steps 2 and 3 up to the await of placeOrder, or on to
\* step 4 when no order is due
Decide(r) ==
    LET targetPosition == calculateTargetPosition(r.accountEquity, r.assetPrice)
        d == calculatePositionDelta(r.currentPosition, targetPosition)
        s == [r EXCEPT !.targetPosition = targetPosition,
                       !.delta = d.delta,
                       !.needsAdjustment = d.needsAdjustment,
                       !.action = d.action]
    IN IF d.needsAdjustment /\ d.action # "hold"
       THEN [s EXCEPT !.pc = "placeOrder",
                      !.orders = Append(r.orders,
                                        OrderRequest(d.action, MathAbs(d.delta)))]
       ELSE Record(s)

\* Variant: the catch block places the pending order again
Catch_resubmit(r, errorMessage) ==
    [Idle EXCEPT !.pc = "logError",
                 !.caller = r.caller,
                 !.thrown = errorMessage,
                 !.built = r.built,
                 !.orders = IF r.needsAdjustment
                            THEN Append(r.orders, OrderRequest(r.action, MathAbs(r.delta)))
                            ELSE r.orders,
                 !.tradeLog = createTradeLog(Fin(0), Fin(0), Fin(0), Fin(0), Fin(0),
                                             "hold", Undefined, "undefined",
                                             FALSE, errorMessage)]

\* Variant: the error record keeps what had been fetched
Catch_partial(r, errorMessage) ==
    [Idle EXCEPT !.pc = "logError",
                 !.caller = r.caller,
                 !.thrown = errorMessage,
                 !.built = r.built,
                 !.orders = r.orders,
                 !.tradeLog = createTradeLog(
                     IF errorMessage # "price" THEN market.price ELSE Fin(0),
                     IF errorMessage # "equity" THEN market.equity ELSE Fin(0),
                     IF errorMessage # "position" THEN market.pos ELSE Fin(0),
                     Fin(0), Fin(0), "hold", Undefined, "undefined",
                     FALSE, errorMessage)]

\* strategy.ts:350-360: the catch block up to the await of logTrade.  The
\* snapshot and the decision are constants of the try block and are out of
\* scope here; the requests already sent (orders) stay sent.
Catch(r, errorMessage) ==
    [Idle EXCEPT !.pc = "logError",
                 !.caller = r.caller,
                 !.thrown = errorMessage,
                 !.built = r.built,
                 !.orders = r.orders,
                 !.tradeLog = createTradeLog(Fin(0), Fin(0), Fin(0), Fin(0), Fin(0),
                                             "hold", Undefined, "undefined",
                                             FALSE, errorMessage)]

\* okx-client.ts:147 parseFloat(instrumentInfo.ctVal): market.ctVal counts the
\* per-contract value in 1/CtValDen
CtValDen == 10

\* a * ctVal for a size a in 1/Scale
MulCtVal(a, ctVal) ==
    IF a.k = "fin" THEN Fin((a.v * ctVal) \div CtValDen) ELSE a

\* okx-client.ts:130-144: the positions answer holds a long position of a
\* SWAP instrument, so getPosition goes on to getInstrument
LookupNeeded == market.posSide = "long" /\ market.instType = "SWAP"

\* Variant: the contract count is returned unconverted
getPosition_raw(instrument) ==
    IF market.posSide # "long" THEN Fin(0) ELSE market.pos

\* Variant: without the instrument the position counts as empty
getPosition_zeroFallback(instrument) ==
    IF market.posSide # "long" THEN Fin(0)
    ELSE IF market.instType = "SWAP"
         THEN (IF instrument = "ok" THEN MulCtVal(market.pos, market.ctVal)
               ELSE Fin(0))
    ELSE market.pos

\* okx-client.ts:129-161, what getPosition resolves with.  market.pos is
\* parseFloat(position.pos) of the long position, if there is one;
\* instrument is the outcome of getInstrument (okx-client.ts:190-205).
getPosition(instrument) ==
    IF market.posSide # "long" THEN Fin(0)
    ELSE LET contractsHeld == market.pos IN
         IF market.instType = "SWAP"
         THEN (IF instrument = "ok" THEN MulCtVal(contractsHeld, market.ctVal)
               ELSE contractsHeld)
         ELSE contractsHeld

\* strategy.ts:305: the destructuring of what Promise.all resolved with
Snapshot(r) ==
    [r EXCEPT !.accountEquity = market.equity,
              !.assetPrice = market.price,
              !.currentPosition = getPosition(r.instrument)]

\* What the caller does with the outcome.  scheduler.ts:208-230: a returned
\* result marks today as executed, a rejection is only logged; the services
\* of the run are dropped.  index.ts (config/index.ts:83-116): the result is
\* printed and the process ends.
Settle(i, r) ==
    IF r.caller = "scheduler"
    THEN /\ inv' = [inv EXCEPT ![i] = Idle]
         /\ lastExecutionDate' =
                IF r.pc = "returned" THEN clock.day ELSE lastExecutionDate
    ELSE /\ inv' = [inv EXCEPT ![i] = r]
         /\ UNCHANGED lastExecutionDate

\* The last of the three requests has resolved: Promise.all resolves and the
\* cycle goes on to step 2.  getPosition has resolved only once its
\* getInstrument lookup, if it makes one, has ended.
FetchResolves(i) ==
    /\ inv[i].pc = "fetching"
    /\ LookupNeeded => inv[i].instrument # "none"
    /\ LET r == [inv[i] EXCEPT !.got = Cardinality(Fetches)] IN
         inv' = [inv EXCEPT ![i] = Decide(Snapshot(r))]
    /\ UNCHANGED <<config, market, clock, running, lastExecutionDate, startedOn, bootTime, calc, client, cron, env, sent, logFile, exited>>

\* One of the pending requests rejects (okx-client.ts:113-120, 69-71, 86-88,
\* or a network error): Promise.all rejects at once, whatever the others did
FetchRejects(i, f) ==
    /\ inv[i].pc = "fetching"
    /\ f = "position" => inv[i].instrument = "none"
    /\ inv' = [inv EXCEPT ![i] = Catch(inv[i], f)]
    /\ UNCHANGED <<config, market, clock, running, lastExecutionDate, startedOn, bootTime, calc, client, cron, env, sent, logFile, exited>>

\* okx-client.ts:146-151: getInstrument resolves inside getPosition
InstrumentResolves(i) ==
    /\ inv[i].pc = "fetching"
    /\ LookupNeeded
    /\ inv[i].instrument = "none"
    /\ inv' = [inv EXCEPT ![i].instrument = "ok"]
    /\ UNCHANGED <<config, market, clock, running, lastExecutionDate, startedOn, bootTime, calc, client, cron, env, sent, logFile, exited>>

\* okx-client.ts:152-156: getInstrument rejects (okx-client.ts:196-202, or a
\* network error) and getPosition catches
InstrumentRejects(i) ==
    /\ inv[i].pc = "fetching"
    /\ LookupNeeded
    /\ inv[i].instrument = "none"
    /\ inv' = [inv EXCEPT ![i].instrument = "failed"]
    /\ UNCHANGED <<config, market, clock, running, lastExecutionDate, startedOn, bootTime, calc, client, cron, env, sent, logFile, exited>>

\* strategy.ts:255-260: placeOrder resolves
OrderResolves(i) ==
    /\ inv[i].pc = "placeOrder"
    /\ inv' = [inv EXCEPT ![i] = Record([inv[i] EXCEPT !.orderResult =
                  [success |-> TRUE, orderId |-> "ordId", error |-> "undefined"]])]
    /\ UNCHANGED <<config, market, clock, running, lastExecutionDate, startedOn, bootTime, calc, client, cron, env, sent, logFile, exited>>

\* strategy.ts:261-266: placeOrder rejects, executePositionAdjustment catches
OrderRejects(i) ==
    /\ inv[i].pc = "placeOrder"
    /\ inv' = [inv EXCEPT ![i] = Record([inv[i] EXCEPT !.orderResult =
                  [success |-> FALSE, orderId |-> "undefined", error |-> "order"]])]
    /\ UNCHANGED <<config, market, clock, running, lastExecutionDate, startedOn, bootTime, calc, client, cron, env, sent, logFile, exited>>

\* logger.ts:33-57 resolves, the record has been written to the day's file
\* (logger.ts:50, written): strategy.ts:345-349 or 362-366 return the result
LogResolves(i) ==
    /\ inv[i].pc \in {"logTrade", "logError"}
    /\ LET r == inv[i]
           res == IF r.pc = "logTrade"
                  THEN [success |-> r.orderResult.success, tradeLog |-> r.tradeLog,
                        error |-> r.orderResult.error]
                  ELSE [success |-> FALSE, tradeLog |-> r.tradeLog,
                        error |-> r.thrown]
       IN Settle(i, [r EXCEPT !.pc = "returned", !.result = res, !.written = TRUE])
    /\ UNCHANGED <<config, market, clock, running, startedOn, bootTime, calc, client, cron, env, sent, logFile, exited>>

\* logger.ts:58-61 rethrows.  In the try block the catch block takes over
\* (strategy.ts:350); in the catch block the rejection leaves executeRebalancing.
LogRejects(i) ==
    /\ inv[i].pc \in {"logTrade", "logError"}
    /\ IF inv[i].pc = "logTrade"
       THEN /\ inv' = [inv EXCEPT ![i] = Catch(inv[i], "log")]
            /\ UNCHANGED lastExecutionDate
       ELSE Settle(i, [inv[i] EXCEPT !.pc = "thrown"])
    /\ UNCHANGED <<config, market, clock, running, startedOn, bootTime, calc, client, cron, env, sent, logFile, exited>>

Cycle(i) ==
    \/ FetchResolves(i)
    \/ \E f \in Fetches : FetchRejects(i, f)
    \/ InstrumentResolves(i)
    \/ InstrumentRejects(i)
    \/ OrderResolves(i)
    \/ OrderRejects(i)
    \/ LogResolves(i)
    \/ LogRejects(i)

----------------------------------------------------------------------------
(* A single run: index.ts main(), config/index.ts:68-120 *)

RunEquities == {0, 1000, 12000}
RunPrices == {0, 2000, 2100}
RunPositions == {0, 150000, 150050, 1500000}
\* ctVal 0.1 and 1
RunCtVals == {1, 10}
InstTypes == {"SWAP", "MARGIN"}
\* the side of the position the exchange reports: hedge mode or net mode
PosSides == {"long", "net"}

NoClock == [day |-> 0, hour |-> 0, minute |-> 0]

\* startScheduler has not run
NoBoot == [day |-> NoDate, hour |-> 0, minute |-> 0]

RunInit ==
    /\ config \in [leverageMultiplier : {3},
                    minAdjustmentSize : {Scale \div 100},
                    dryRun : BOOLEAN,
                    hour : {0}, minute : {1}]
    /\ market \in [equity : {Fin(e) : e \in RunEquities},
                    price : {Fin(p) : p \in RunPrices},
                    pos : {Fin(c) : c \in RunPositions},
                    instType : InstTypes, posSide : PosSides, ctVal : RunCtVals]
    /\ clock = NoClock
    /\ running = FALSE
    /\ lastExecutionDate = NoDate
    /\ inv = [i \in Slots |-> Idle]
    /\ startedOn = <<>>
    /\ bootTime = NoBoot
    /\ calc = NoCall
    /\ client = NoRequest
    /\ cron = NoCron
    /\ env = NoEnv
    /\ sent = NoSent
    /\ logFile = NoFile
    /\ exited = FALSE

\* config/index.ts:77-83: main() builds the services and calls executeRebalancing
Main ==
    /\ inv[1].pc = "idle"
    /\ inv' = [inv EXCEPT ![1] = Started("main")]
    /\ UNCHANGED <<config, market, clock, running, lastExecutionDate, startedOn, bootTime, calc, client, cron, env, sent, logFile, exited>>

RunNext == Main \/ Cycle(1)

RunSpec == RunInit /\ [][RunNext]_vars

\* The requests made through this.client (okx-client.ts:19-27, timeout 30000)
\* are over after 30 s at the latest, by an answer or by the timeout's
\* rejection: once getPosition is not waiting for getInstrument, Promise.all
\* settles.
TimedFetchSettles == FetchResolves(1) \/ \E f \in Fetches : FetchRejects(1, f)
TimedOrderSettles == OrderResolves(1) \/ OrderRejects(1)
\* logger.ts:33-62: the file operations end
LogSettles == LogResolves(1) \/ LogRejects(1)

\* A run in which main() is called, every request with a timeout settles and
\* the file system answers.  getInstrument (okx-client.ts:190-194) goes
\* through axios.get without a timeout: nothing makes it settle.
LiveRunSpec ==
    /\ RunInit /\ [][RunNext]_vars
    /\ WF_vars(Main)
    /\ WF_vars((LookupNeeded => inv[1].instrument # "none") /\ TimedFetchSettles)
    /\ WF_vars(TimedOrderSettles)
    /\ WF_vars(LogSettles)

----------------------------------------------------------------------------
(* A single run on answers that may lack a number *)

\* okx-client.ts:122, 141, 183: parseFloat of totalEq, pos and last; NaN when
\* the text is not numeric (for last and pos also when it is missing)
ParsedEquities == {Fin(1000), Fin(12000), NaN}
ParsedPrices == {Fin(2000), NaN}
ParsedPositions == {Fin(0), Fin(150000), NaN}

NanInit ==
    /\ config \in [leverageMultiplier : {3},
                    minAdjustmentSize : {Scale \div 100},
                    dryRun : BOOLEAN,
                    hour : {0}, minute : {1}]
    /\ market \in [equity : ParsedEquities, price : ParsedPrices, pos : ParsedPositions,
                    instType : InstTypes, posSide : PosSides, ctVal : RunCtVals]
    /\ clock = NoClock
    /\ running = FALSE
    /\ lastExecutionDate = NoDate
    /\ inv = [i \in Slots |-> Idle]
    /\ startedOn = <<>>
    /\ bootTime = NoBoot
    /\ calc = NoCall
    /\ client = NoRequest
    /\ cron = NoCron
    /\ env = NoEnv
    /\ sent = NoSent
    /\ logFile = NoFile
    /\ exited = FALSE

NanSpec == NanInit /\ [][RunNext]_vars

----------------------------------------------------------------------------
(* Two runs in a row against an exchange that fills the first run's order *)

\* per-contract values 0.1, 1 and 2
FillCtVals == {1, CtValDen, 2 * CtValDen}

FillInit ==
    /\ config \in [leverageMultiplier : {3},
                    minAdjustmentSize : {Scale \div 100},
                    dryRun : {FALSE},
                    hour : {0}, minute : {1}]
    /\ market \in [equity : {Fin(1000), Fin(12000)},
                    price : {Fin(2000), Fin(2100)},
                    pos : {Fin(c) : c \in RunPositions},
                    instType : {"SWAP"}, posSide : {"long"}, ctVal : FillCtVals]
    /\ clock = NoClock
    /\ running = FALSE
    /\ lastExecutionDate = NoDate
    /\ inv = [i \in Slots |-> Idle]
    /\ startedOn = <<>>
    /\ bootTime = NoBoot
    /\ calc = NoCall
    /\ client = NoRequest
    /\ cron = NoCron
    /\ env = NoEnv
    /\ sent = NoSent
    /\ logFile = NoFile
    /\ exited = FALSE

\* the long position, in contracts, after the exchange has filled a market
\* order in full: the exchange reads sz (strategy.ts:251) as a number of
\* contracts
Filled(pos, order) ==
    IF order.side = "buy" THEN Fin(pos.v + order.sz.v) ELSE Fin(pos.v - order.sz.v)

\* The first run has returned with its order accepted (strategy.ts:255-260),
\* the exchange has filled it, and main() is run again (index.ts).
MainAfterFill ==
    /\ inv[1].pc = "returned"
    /\ inv[1].built = "accepted"
    /\ inv[2].pc = "idle"
    /\ IsFin(inv[1].orders[1].sz)
    /\ Filled(market.pos, inv[1].orders[1]).v >= 0
    /\ market' = [market EXCEPT !.pos = Filled(market.pos, inv[1].orders[1])]
    /\ inv' = [inv EXCEPT ![2] = Started("main")]
    /\ UNCHANGED <<config, clock, running, lastExecutionDate, startedOn, bootTime, calc, client, cron, env, sent, logFile, exited>>

FillNext == Main \/ MainAfterFill \/ Cycle(1) \/ Cycle(2)

FillSpec == FillInit /\ [][FillNext]_vars

----------------------------------------------------------------------------
(* The timer loop: scheduler.ts:157-322 *)

MaxDay == 1
Hours == {0, 1}
Minutes == {0, 1}
Days == 0 .. MaxDay

LastHour == CHOOSE h \in Hours : \A g \in Hours : g <= h
LastMinute == CHOOSE m \in Minutes : \A n \in Minutes : n <= m

\* the clock one CHECK_INTERVAL_MS (scheduler.ts:157, one minute) later
NextMinute(t) ==
    IF t.minute < LastMinute THEN [t EXCEPT !.minute = @ + 1]
    ELSE IF t.hour < LastHour THEN [t EXCEPT !.minute = 0, !.hour = @ + 1]
    ELSE [day |-> t.day + 1, hour |-> 0, minute |-> 0]

\* Variant: the time of day is not looked at
shouldExecuteNow_anyTime(targetHour, targetMinute) ==
    LET todayKey == clock.day
    IN lastExecutionDate # todayKey

\* Variant: nothing is started once a date has been stored
shouldExecuteNow_onceOnly(targetHour, targetMinute) ==
    LET currentHour == clock.hour
        currentMinute == clock.minute
    IN IF lastExecutionDate # NoDate THEN FALSE
       ELSE IF currentHour > targetHour
               \/ (currentHour = targetHour /\ currentMinute >= targetMinute)
            THEN TRUE
       ELSE FALSE

\* scheduler.ts:177-197
shouldExecuteNow(targetHour, targetMinute) ==
    LET todayKey == clock.day
        currentHour == clock.hour
        currentMinute == clock.minute
    IN IF lastExecutionDate = todayKey THEN FALSE
       ELSE IF currentHour > targetHour
               \/ (currentHour = targetHour /\ currentMinute >= targetMinute)
            THEN TRUE
       ELSE FALSE

\* CRON_SCHEDULE (config/index.ts:51, default "5 0 * * *"): <<hour, minute>>,
\* one late in the first hour, one at the start of a later hour
Schedules == {<<0, 1>>, <<1, 0>>}

\* the two market situations the loop is run against: scenario A (buy) on
\* margin, and scenario C (hold) as swap contracts of 1 each
SchedMarkets ==
    {[equity |-> Fin(12000), price |-> Fin(2100), pos |-> Fin(1500000),
      instType |-> "MARGIN", posSide |-> "long", ctVal |-> CtValDen],
     [equity |-> Fin(1000), price |-> Fin(2000), pos |-> Fin(150050),
      instType |-> "SWAP", posSide |-> "long", ctVal |-> CtValDen]}

Init ==
    /\ config \in [leverageMultiplier : {3},
                    minAdjustmentSize : {Scale \div 100},
                    dryRun : {TRUE},
                    hour : Hours, minute : Minutes]
    /\ <<config.hour, config.minute>> \in Schedules
    /\ market \in SchedMarkets
    /\ clock \in [day : {0}, hour : Hours, minute : Minutes]
    /\ running = FALSE
    /\ lastExecutionDate = NoDate
    /\ inv = [i \in Slots |-> Idle]
    /\ startedOn = [d \in Days |-> 0]
    /\ bootTime = NoBoot
    /\ calc = NoCall
    /\ client = NoRequest
    /\ cron = NoCron
    /\ env = NoEnv
    /\ sent = NoSent
    /\ logFile = NoFile
    /\ exited = FALSE

\* Variant: no startup catch-up
startScheduler_noCatchUp ==
    /\ ~running
    /\ running' = TRUE
    /\ bootTime' = clock
    /\ UNCHANGED <<config, market, clock, lastExecutionDate, inv, startedOn, calc, client, cron, env, sent, logFile, exited>>

\* scheduler.ts:246-305: startScheduler up to setInterval
startScheduler ==
    /\ ~running
    /\ running' = TRUE
    /\ LET hour == config.hour
           minute == config.minute
           todayKey == clock.day
           currentHour == clock.hour
           currentMinute == clock.minute
       IN lastExecutionDate' =
            IF currentHour > hour \/ (currentHour = hour /\ currentMinute >= minute)
            THEN todayKey
            ELSE lastExecutionDate
    /\ bootTime' = clock
    /\ UNCHANGED <<config, market, clock, inv, startedOn, calc, client, cron, env, sent, logFile, exited>>

FreeSlot == CHOOSE i \in Slots : inv[i].pc = "idle" /\ \A j \in Slots : inv[j].pc = "idle" => i <= j

\* scheduler.ts:279-305: the setInterval callback, one CHECK_INTERVAL_MS after
\* the previous one.  With shouldExecuteNow it runs runRebalancing
\* (scheduler.ts:199-208) up to the await inside executeRebalancing.
Tick ==
    /\ running
    /\ NextMinute(clock).day \in Days
    /\ clock' = NextMinute(clock)
    /\ UNCHANGED <<config, market, running, lastExecutionDate, bootTime, calc, client, cron, env, sent, logFile, exited>>
    /\ IF shouldExecuteNow(config.hour, config.minute)'
       THEN /\ \E i \in Slots : inv[i].pc = "idle"
            /\ inv' = [inv EXCEPT ![FreeSlot] = Started("scheduler")]
            /\ startedOn' = [startedOn EXCEPT ![clock'.day] = @ + 1]
       ELSE UNCHANGED <<inv, startedOn>>

Next == startScheduler \/ Tick \/ \E i \in Slots : Cycle(i)

Spec == Init /\ [][Next]_vars

----------
(* The timer loop and a shutdown signal: scheduler.ts:310-321 *)

\* the loop of Init, started at midnight with the schedule 00:01
SignalInit ==
    /\ Init
    /\ clock = NoClock
    /\ <<config.hour, config.minute>> = <<0, 1>>

\* Variant: the handler returns without ending the process
Alive_afterExit == TRUE

\* scheduler.ts:313, 319: process.exit(0) has not been called; after it
\* nothing of the process runs any more, callbacks and continuations included
Alive == ~exited

\* scheduler.ts:310-321: SIGINT or SIGTERM arrives and its handler runs:
\* clearInterval(intervalId), then process.exit(0)
Shutdown ==
    /\ running
    /\ ~exited
    /\ running' = FALSE
    /\ exited' = TRUE
    /\ UNCHANGED <<config, market, clock, lastExecutionDate, inv, startedOn, bootTime, calc, client, cron, env, sent, logFile>>

SignalNext == (Alive /\ Next) \/ Shutdown

SignalSpec == SignalInit /\ [][SignalNext]_vars

----------
(* The calculator applied to drawn inputs, as test-manual.ts:43-44 applies it *)

MaxSmall == 40

CalcEquities == {0, 1, 5, 1000, 12000, 12500}
CalcPrices == {0, 16, 32, 2000, 2100, 2200}
CalcPositions ==
    (0 .. MaxSmall) \cup {150000, 150050, 1500000, 1714290}

ChainPositions == {0, 5, 8, 100005, 150000, 150050, 1500000, 1714290}

\* The arguments of one use of the calculator: calculateTargetPosition followed
\* by calculatePositionDelta on its result, or calculatePositionDelta alone.
CalcCalls ==
    {[NoCall EXCEPT !.fn = "calculateTargetPosition",
                    !.equity = Fin(e), !.price = Fin(p), !.current = Fin(c)] :
        e \in CalcEquities, p \in CalcPrices, c \in ChainPositions}
    \cup
    {[NoCall EXCEPT !.fn = "calculatePositionDelta",
                    !.current = Fin(c), !.target = Fin(t)] :
        c \in CalcPositions, t \in CalcPositions}

CalcInit ==
    /\ config \in [leverageMultiplier : Leverages,
                    minAdjustmentSize : Thresholds,
                    dryRun : {TRUE},
                    hour : {0}, minute : {1}]
    /\ market = [equity |-> NaN, price |-> NaN, pos |-> NaN,
                 instType |-> "MARGIN", posSide |-> "long", ctVal |-> CtValDen]
    /\ clock = NoClock
    /\ running = FALSE
    /\ lastExecutionDate = NoDate
    /\ inv = [i \in Slots |-> Idle]
    /\ startedOn = <<>>
    /\ bootTime = NoBoot
    /\ calc \in CalcCalls
    /\ client = NoRequest
    /\ cron = NoCron
    /\ env = NoEnv
    /\ sent = NoSent
    /\ logFile = NoFile
    /\ exited = FALSE

\* test-manual.ts:43  strategy.calculateTargetPosition(equity, assetPrice)
ApplyTarget ==
    /\ calc.fn = "calculateTargetPosition" /\ calc.pc = "args"
    /\ calc' = [calc EXCEPT !.pc = "target",
                            !.target = calculateTargetPosition(calc.equity, calc.price)]
    /\ UNCHANGED <<config, market, clock, running, lastExecutionDate, inv, startedOn, bootTime, client, cron, env, sent, logFile, exited>>

\* test-manual.ts:44  calculatePositionDelta(position, targetPosition) on the
\* target just computed
ApplyDeltaToTarget ==
    /\ calc.fn = "calculateTargetPosition" /\ calc.pc = "target"
    /\ LET r == calculatePositionDelta(calc.current, calc.target) IN
         calc' = [calc EXCEPT !.pc = "delta",
                             !.delta = r.delta,
                             !.needsAdjustment = r.needsAdjustment,
                             !.action = r.action]
    /\ UNCHANGED <<config, market, clock, running, lastExecutionDate, inv, startedOn, bootTime, client, cron, env, sent, logFile, exited>>

\* strategy.calculatePositionDelta(current, target) on drawn arguments
ApplyDelta ==
    /\ calc.fn = "calculatePositionDelta" /\ calc.pc = "args"
    /\ LET r == calculatePositionDelta(calc.current, calc.target) IN
         calc' = [calc EXCEPT !.pc = "delta",
                             !.delta = r.delta,
                             !.needsAdjustment = r.needsAdjustment,
                             !.action = r.action]
    /\ UNCHANGED <<config, market, clock, running, lastExecutionDate, inv, startedOn, bootTime, client, cron, env, sent, logFile, exited>>

CalcNext == ApplyTarget \/ ApplyDeltaToTarget \/ ApplyDelta

CalcSpec == CalcInit /\ [][CalcNext]_vars

----------------------------------------------------------------------------
(* The exchange client applied to drawn responses: okx-client.ts:53-205 *)

\* an HTTP status axios resolves with (validateStatus default: 2xx), one it
\* rejects with
HttpStatuses == {200, 400, 500}
\* response.data.code: success, an error code, no code field
BodyCodes == {"0", "51000", "undefined"}
\* response.data.data: an empty list; a first entry without the field the
\* operation reads (totalEq); one with the field empty; one with the field
DataShapes == {"empty", "entryWithoutField", "entryEmptyField", "entry"}

ClientOps == {"getAccountBalance", "getTicker", "getPositions", "placeOrder", "getAccountEquity", "getInstrument"}

Returns == "returns"
Throws == "throws"

\* this.client.get / this.client.post / axios.get: rejects unless 2xx
axiosRejects(resp) == resp.http < 200 \/ resp.http > 299

\* okx-client.ts:53-61
getAccountBalance(resp) ==
    IF axiosRejects(resp) THEN Throws
    ELSE IF resp.code # "0" THEN Throws
    ELSE IF resp.data = "empty" THEN Throws    \* data[0].details of undefined
    ELSE Returns

\* okx-client.ts:66-74
getTicker(resp) ==
    IF axiosRejects(resp) THEN Throws
    ELSE IF resp.code # "0" THEN Throws
    ELSE Returns

\* okx-client.ts:79-91
getPositions(resp) ==
    IF axiosRejects(resp) THEN Throws
    ELSE IF resp.code # "0" THEN Throws
    ELSE Returns

\* okx-client.ts:96-104
placeOrder(resp) ==
    IF axiosRejects(resp) THEN Throws
    ELSE IF resp.code # "0" THEN Throws
    ELSE Returns

\* Variant: the equity field is not looked for
getAccountEquity_noFieldCheck(resp) ==
    IF axiosRejects(resp) THEN Throws
    ELSE IF resp.code # "0" THEN Throws
    ELSE Returns

\* okx-client.ts:110-123
getAccountEquity(resp) ==
    IF axiosRejects(resp) THEN Throws
    ELSE IF resp.code # "0" THEN Throws
    ELSE IF resp.data = "empty" \/ resp.data \in {"entryWithoutField", "entryEmptyField"}
         THEN Throws
    ELSE Returns

\* okx-client.ts:190-205
getInstrument(resp) ==
    IF axiosRejects(resp) THEN Throws
    ELSE IF resp.code # "0" THEN Throws
    ELSE IF resp.data = "empty" THEN Throws
    ELSE Returns

ClientCalls ==
    {[NoRequest EXCEPT !.op = o, !.http = h, !.code = c, !.data = d, !.pc = "pending"] :
        o \in ClientOps, h \in HttpStatuses, c \in BodyCodes, d \in DataShapes}

ClientInit ==
    /\ config \in [leverageMultiplier : {3},
                    minAdjustmentSize : {Scale \div 100},
                    dryRun : {TRUE},
                    hour : {0}, minute : {1}]
    /\ market = [equity |-> NaN, price |-> NaN, pos |-> NaN,
                 instType |-> "MARGIN", posSide |-> "long", ctVal |-> CtValDen]
    /\ clock = NoClock
    /\ running = FALSE
    /\ lastExecutionDate = NoDate
    /\ inv = [i \in Slots |-> Idle]
    /\ startedOn = <<>>
    /\ bootTime = NoBoot
    /\ calc = NoCall
    /\ client \in ClientCalls
    /\ cron = NoCron
    /\ env = NoEnv
    /\ sent = NoSent
    /\ logFile = NoFile
    /\ exited = FALSE

\* the exchange has answered and the operation ends
Answered ==
    /\ client.pc = "pending"
    /\ client' = [client EXCEPT
           !.pc = "settled",
           !.outcome = CASE client.op = "getAccountBalance" -> getAccountBalance(client)
                         [] client.op = "getTicker" -> getTicker(client)
                         [] client.op = "getPositions" -> getPositions(client)
                         [] client.op = "placeOrder" -> placeOrder(client)
                         [] client.op = "getAccountEquity" -> getAccountEquity(client)
                         [] client.op = "getInstrument" -> getInstrument(client)]
    /\ UNCHANGED <<config, market, clock, running, lastExecutionDate, inv, startedOn, bootTime, calc, cron, env, sent, logFile, exited>>

ClientNext == Answered

ClientSpec == ClientInit /\ [][ClientNext]_vars

----------------------------------------------------------------------------
(* Startup on a drawn CRON_SCHEDULE: scheduler.ts:160-175, 246-252, 325-328 *)

RECURSIVE split(_)
\* cronSchedule.split(' '): the pieces between single spaces, empty pieces kept
split(str) ==
    IF str = <<>> THEN << <<>> >>
    ELSE LET rest == split(Tail(str))
         IN IF Head(str) = " " THEN << <<>> >> \o rest
            ELSE << <<Head(str)>> \o Head(rest) >> \o Tail(rest)

DigitChars == {"0", "1", "2", "3", "4", "5", "6", "7", "8", "9"}

DigitValue(c) ==
    CASE c = "0" -> 0 [] c = "1" -> 1 [] c = "2" -> 2 [] c = "3" -> 3 [] c = "4" -> 4
      [] c = "5" -> 5 [] c = "6" -> 6 [] c = "7" -> 7 [] c = "8" -> 8 [] c = "9" -> 9

RECURSIVE DigitPrefix(_)
\* the longest prefix of decimal digits
DigitPrefix(str) ==
    IF str = <<>> \/ Head(str) \notin DigitChars THEN <<>>
    ELSE <<Head(str)>> \o DigitPrefix(Tail(str))

RECURSIVE DecimalValue(_)
DecimalValue(digits) ==
    IF digits = <<>> THEN 0
    ELSE 10 * DecimalValue(SubSeq(digits, 1, Len(digits) - 1)) + DigitValue(digits[Len(digits)])

\* parseInt(string) in radix 10: an optional sign, then the longest prefix of
\* digits; what follows is ignored; NaN without a digit.  (The strings drawn
\* have no leading white space and no "0x" prefix.)
parseInt(str) ==
    LET signed == str # <<>> /\ Head(str) \in {"-", "+"}
        body == IF signed THEN Tail(str) ELSE str
        digits == DigitPrefix(body)
    IN IF digits = <<>> THEN NaN
       ELSE IF signed /\ Head(str) = "-" THEN Fin(0 - DecimalValue(digits))
       ELSE Fin(DecimalValue(digits))

Thrown == [thrown |-> TRUE, hour |-> NoDate, minute |-> NoDate]

\* scheduler.ts:160-175
parseSchedule(cronSchedule) ==
    LET parts == split(cronSchedule)
    IN IF Len(parts) # 5 THEN Thrown
       ELSE LET minute == parseInt(parts[1])
                hour == parseInt(parts[2])
            IN IF \/ ~IsFin(minute) \/ ~IsFin(hour)
                  \/ minute.v < 0 \/ minute.v > 59 \/ hour.v < 0 \/ hour.v > 23
               THEN Thrown
               ELSE [thrown |-> FALSE, hour |-> hour.v, minute |-> minute.v]

RECURSIVE join(_)
\* the fields with one space between them
join(fields) ==
    IF fields = <<>> THEN <<>>
    ELSE IF Len(fields) = 1 THEN fields[1]
    ELSE fields[1] \o <<" ">> \o join(Tail(fields))

\* field texts: in range, at and past the ends of the ranges, "every", empty
\* (two spaces in a row), and numbers followed or preceded by other characters
TimeFields ==
    {<<"5">>, <<"0">>, <<"2", "3">>, <<"2", "4">>, <<"5", "9">>, <<"6", "0">>,
     <<"*">>, <<>>, <<"5", "x">>, <<"-", "1">>, <<"5", ".", "5">>}
OtherFields == {<<"*">>, <<"1">>}

\* values of CRON_SCHEDULE: five fields, four, six
CronSchedules ==
    LET five == {<<m, h, a, b, c>> : m \in TimeFields, h \in TimeFields,
                                    a \in OtherFields, b \in OtherFields, c \in OtherFields}
    IN {join(f) : f \in five}
       \cup {join(SubSeq(f, 1, 4)) : f \in five}
       \cup {join(f \o << <<"*">> >>) : f \in five}

ParseInit ==
    /\ config \in [leverageMultiplier : {3},
                    minAdjustmentSize : {Scale \div 100},
                    dryRun : {TRUE},
                    hour : {NoDate}, minute : {NoDate}]
    /\ market \in SchedMarkets
    /\ clock = [day |-> 0, hour |-> 0, minute |-> 30]
    /\ running = FALSE
    /\ lastExecutionDate = NoDate
    /\ inv = [i \in Slots |-> Idle]
    /\ startedOn = [d \in Days |-> 0]
    /\ bootTime = NoBoot
    /\ calc = NoCall
    /\ client = NoRequest
    /\ cron \in {[NoCron EXCEPT !.cronSchedule = c, !.pc = "starting"] : c \in CronSchedules}
    /\ env = NoEnv
    /\ sent = NoSent
    /\ logFile = NoFile
    /\ exited = FALSE

\* scheduler.ts:246-250: startScheduler up to the result of parseSchedule; on
\* a throw the promise rejects and the process exits (scheduler.ts:325-328)
Parse ==
    /\ cron.pc = "starting"
    /\ LET parsed == parseSchedule(cron.cronSchedule)
       IN IF parsed.thrown
          THEN /\ cron' = [cron EXCEPT !.pc = "exited"]
               /\ UNCHANGED config
          ELSE /\ cron' = [cron EXCEPT !.pc = "parsed"]
               /\ config' = [config EXCEPT !.hour = parsed.hour, !.minute = parsed.minute]
    /\ UNCHANGED <<market, clock, running, lastExecutionDate, inv, startedOn, bootTime, calc, client, env, sent, logFile, exited>>

ParseNext == Parse \/ (cron.pc = "parsed" /\ startScheduler)

ParseSpec == ParseInit /\ [][ParseNext]_vars

----------------------------------------------------------------------------
(* Loading config.trading from the environment: config/index.ts:43-49 *)

RECURSIVE Pow10(_)
Pow10(n) == IF n = 0 THEN 1 ELSE 10 * Pow10(n - 1)

\* the digits after the point, in 1/Scale (what lies beyond is dropped)
FractionValue(digits) == (DecimalValue(digits) * Scale) \div Pow10(Len(digits))

\* Number(value) of an environment variable, in 1/Scale: NaN for undefined,
\* 0 for the empty string, the value of a decimal literal with an optional
\* sign that makes up the whole string, NaN for anything else.  (The texts
\* drawn have no white space, exponent, "Infinity" or "0x".)
Number(text) ==
    IF text = Unset THEN NaN
    ELSE IF text = <<>> THEN Fin(0)
    ELSE LET negative == Head(text) = "-"
             body == IF Head(text) \in {"-", "+"} THEN Tail(text) ELSE text
             whole == DigitPrefix(body)
             rest == SubSeq(body, Len(whole) + 1, Len(body))
             fraction == IF rest # <<>> /\ Head(rest) = "." THEN DigitPrefix(Tail(rest)) ELSE <<>>
             literal == /\ whole \o fraction # <<>>
                        /\ \/ rest = <<>>
                           \/ (Head(rest) = "." /\ Tail(rest) = fraction)
             magnitude == DecimalValue(whole) * Scale + FractionValue(fraction)
         IN IF ~literal THEN NaN
            ELSE IF negative THEN Fin(0 - magnitude)
            ELSE Fin(magnitude)

\* Number(value) || fallback: NaN and 0 are falsy
NumberOr(text, fallback) ==
    LET n == Number(text)
    IN IF ~IsFin(n) \/ n.v = 0 THEN fallback ELSE n.v

\* values of LEVERAGE_MULTIPLIER and MIN_ADJUSTMENT_SIZE: absent, empty,
\* zero, negative, non-numeric, positive
EnvTexts ==
    {Unset, <<>>, <<"0">>, <<"-", "0">>, <<"-", "2">>, <<"a", "b", "c">>, <<"5", "x">>,
     <<"3">>, <<"1">>, <<"0", ".", "0", "1">>, <<"-", "0", ".", "0", "1">>,
     <<"0", ".", "0", "0", "0", "0", "1">>}

LoadInit ==
    /\ config = [leverageMultiplier |-> 0, minAdjustmentSize |-> 0,
                 dryRun |-> TRUE, hour |-> 0, minute |-> 1]
    /\ market = [equity |-> NaN, price |-> NaN, pos |-> NaN,
                 instType |-> "MARGIN", posSide |-> "long", ctVal |-> CtValDen]
    /\ clock = NoClock
    /\ running = FALSE
    /\ lastExecutionDate = NoDate
    /\ inv = [i \in Slots |-> Idle]
    /\ startedOn = <<>>
    /\ bootTime = NoBoot
    /\ calc = NoCall
    /\ client = NoRequest
    /\ cron = NoCron
    /\ env \in {[pc |-> "set", LEVERAGE_MULTIPLIER |-> l, MIN_ADJUSTMENT_SIZE |-> m] :
                    l \in EnvTexts, m \in EnvTexts}
    /\ sent = NoSent
    /\ logFile = NoFile
    /\ exited = FALSE

\* config/index.ts:37-56: the module is evaluated.  In this specification
\* leverageMultiplier is in 1/Scale as minAdjustmentSize is.
LoadConfig ==
    /\ env.pc = "set"
    /\ env' = [env EXCEPT !.pc = "loaded"]
    /\ config' = [config EXCEPT
           !.leverageMultiplier = NumberOr(env.LEVERAGE_MULTIPLIER, 3 * Scale),
           !.minAdjustmentSize = NumberOr(env.MIN_ADJUSTMENT_SIZE, Scale \div 100)]
    /\ UNCHANGED <<market, clock, running, lastExecutionDate, inv, startedOn, bootTime, calc, client, cron, sent, logFile, exited>>

LoadNext == LoadConfig

LoadSpec == LoadInit /\ [][LoadNext]_vars

----------------------------------------------------------------------------
(* Request signing: okx-client.ts:19-48 *)

MaxSent == 2

\* the axios request configurations the client's methods hand to the
\* interceptor: okx-client.ts:54 and 111, 67, 97 (with an order of
\* strategy.ts:246-253 as data); data is <<>> when the request has none
Requests ==
    {[method |-> "get", url |-> "/api/v5/account/balance", data |-> <<>>],
     [method |-> "get", url |-> "/api/v5/market/ticker?instId=SWAP", data |-> <<>>],
     [method |-> "post", url |-> "/api/v5/trade/order", data |-> <<OrderRequest("buy", Fin(Scale))>>]}

toUpperCase(method) ==
    CASE method = "get" -> "GET"
      [] method = "post" -> "POST"
      [] OTHER -> method

\* JSON.stringify(data): the text of the value, one text per value; the empty
\* string is <<>>
JSONstringify(data) == <<"json", data>>

\* createHmac('sha256', key).update(text).digest('base64'): one digest per key
\* and text
Hmac(key, text) == [sha256 |-> key, of |-> text]

\* timestamp + method + requestPath + body, kept as its four parts
Prehash(timestamp, method, requestPath, body) == <<timestamp, method, requestPath, body>>

\* Variant: the timestamp of the first request is kept for the later ones
signRequest_cached(request) ==
    LET timestamp == IF sent = <<>> THEN clock ELSE sent[1].headers.timestamp
        method == IF request.method = "undefined" THEN "GET" ELSE toUpperCase(request.method)
        requestPath == request.url
        body == IF request.data # <<>> THEN JSONstringify(request.data[1]) ELSE <<>>
        signature == Hmac("secretKey", Prehash(timestamp, method, requestPath, body))
    IN [request |-> request,
        headers |-> [sign |-> signature, timestamp |-> timestamp]]

\* okx-client.ts:32-48.  new Date().toISOString() is the clock as it is read.
signRequest(request) ==
    LET timestamp == clock
        method == IF request.method = "undefined" THEN "GET" ELSE toUpperCase(request.method)
        requestPath == request.url
        body == IF request.data # <<>> THEN JSONstringify(request.data[1]) ELSE <<>>
        signature == Hmac("secretKey", Prehash(timestamp, method, requestPath, body))
    IN [request |-> request,
        headers |-> [sign |-> signature, timestamp |-> timestamp]]

SignInit ==
    /\ config = [leverageMultiplier |-> 3, minAdjustmentSize |-> Scale \div 100,
                 dryRun |-> TRUE, hour |-> 0, minute |-> 1]
    /\ market = [equity |-> NaN, price |-> NaN, pos |-> NaN,
                 instType |-> "MARGIN", posSide |-> "long", ctVal |-> CtValDen]
    /\ clock \in [day : {0}, hour : Hours, minute : Minutes]
    /\ running = FALSE
    /\ lastExecutionDate = NoDate
    /\ inv = [i \in Slots |-> Idle]
    /\ startedOn = <<>>
    /\ bootTime = NoBoot
    /\ calc = NoCall
    /\ client = NoRequest
    /\ cron = NoCron
    /\ env = NoEnv
    /\ sent = NoSent
    /\ logFile = NoFile
    /\ exited = FALSE

\* okx-client.ts:29: a request of this.client passes the interceptor and goes
\* out; at records the clock of that moment
Send(request) ==
    /\ Len(sent) < MaxSent
    /\ sent' = Append(sent, signRequest(request) @@ [at |-> clock])
    /\ UNCHANGED <<config, market, clock, running, lastExecutionDate, inv, startedOn, bootTime, calc, client, cron, env, logFile, exited>>

\* time passes between requests
TimePasses ==
    /\ NextMinute(clock).day \in Days
    /\ clock' = NextMinute(clock)
    /\ UNCHANGED <<config, market, running, lastExecutionDate, inv, startedOn, bootTime, calc, client, cron, env, sent, logFile, exited>>

SignNext == (\E request \in Requests : Send(request)) \/ TimePasses

SignSpec == SignInit /\ [][SignNext]_vars

----------------------------------------------------------------------------
(* Properties of the calculator (CalcSpec) *)

AbsInt(n) == IF n < 0 THEN -n ELSE n

DeltaReturned ==
    calc.pc = "delta" /\ IsFin(calc.current) /\ IsFin(calc.target)

RawDelta == calc.target.v - calc.current.v

C7_TargetIsRound4 ==
    (/\ calc.fn = "calculateTargetPosition" /\ calc.pc # "args"
     /\ calc.equity.v >= 0 /\ calc.price.v > 0 /\ config.leverageMultiplier > 0)
    =>
        /\ IsFin(calc.target)
        /\ calc.target.v >= 0
        /\ calc.target.v % Step = 0
        /\ LET r == calc.target.v \div Step
               x == calc.equity.v * config.leverageMultiplier * Precision
               p == calc.price.v
           IN 2 * r * p - p <= 2 * x /\ 2 * x < 2 * r * p + p

\* 1 * 1 / 32 = 0.03125, a tie, is rounded to 0.0313
C7_Witness ==
    /\ calc.fn = "calculateTargetPosition" /\ calc.pc = "target"
    /\ calc.equity = Fin(1) /\ calc.price = Fin(32) /\ config.leverageMultiplier = 1
    /\ calc.target = Fin(313 * Step)

\* C8 as stated: the returned delta is target - current rounded to 4 decimals,
\* ties away from zero.
C8_DeltaRoundsHalfAwayFromZero ==
    DeltaReturned =>
        /\ IsFin(calc.delta)
        /\ calc.delta.v % Step = 0
        /\ (RawDelta >= 0 => calc.delta.v >= 0)
        /\ (RawDelta <= 0 => calc.delta.v <= 0)
        /\ 2 * AbsInt(calc.delta.v) - Step <= 2 * AbsInt(RawDelta)
        /\ 2 * AbsInt(RawDelta) < 2 * AbsInt(calc.delta.v) + Step

\* C8 amended: the returned delta is target - current rounded to the nearest
\* 1/10000 with ties toward +Infinity (Math.round), the rule applied to the
\* target; a negative tie is rounded toward zero.
C8_DeltaRoundsHalfUp ==
    DeltaReturned =>
        /\ IsFin(calc.delta)
        /\ calc.delta.v % Step = 0
        /\ 2 * calc.delta.v - Step <= 2 * RawDelta
        /\ 2 * RawDelta < 2 * calc.delta.v + Step

\* target - current = -0.00005, returned delta 0
C8_Witness ==
    /\ DeltaReturned
    /\ 2 * RawDelta = -Step
    /\ calc.delta = Fin(0)

ScenarioC ==
    /\ calc.fn = "calculateTargetPosition"
    /\ calc.equity = Fin(1000) /\ calc.price = Fin(2000)
    /\ calc.current = Fin(150050)
    /\ config.leverageMultiplier = 3
    /\ config.minAdjustmentSize = 1000

\* C10: equity 1000, price 2000, leverage 3, current 1.5005, threshold 0.01
\* give target 1.5, delta -0.0005 and action hold.
C10_ScenarioC ==
    ScenarioC =>
        /\ calc.pc # "args" => calc.target = Fin(150000)
        /\ calc.pc = "delta" =>
              /\ calc.delta = Fin(-50)
              /\ calc.action = "hold"
              /\ ~calc.needsAdjustment

C10_Witness == ScenarioC /\ calc.pc = "delta" /\ calc.delta.v # 0

ZeroEquity ==
    /\ calc.fn = "calculateTargetPosition"
    /\ calc.equity = Fin(0) /\ calc.price.v > 0

C37_SellWithinPosition ==
    (/\ calc.fn = "calculateTargetPosition" /\ calc.pc = "delta"
     /\ calc.equity.v >= 0 /\ calc.price.v > 0 /\ config.leverageMultiplier > 0
     /\ calc.current.v >= 0
     /\ calc.action = "sell")
    => MathAbs(calc.delta).v <= calc.current.v

\* C38: whenever an adjustment is decided (the condition under which the
\* cycle calls placeOrder) the order size abs(delta) is strictly greater
\* than 0, for every positive threshold and every current position.
C38_OrderSizePositive ==
    (/\ calc.fn = "calculateTargetPosition" /\ calc.pc = "delta"
     /\ config.minAdjustmentSize > 0
     /\ calc.needsAdjustment /\ calc.action # "hold")
    => (IsFin(calc.delta) /\ MathAbs(calc.delta).v > 0)

\* the record is one executeRebalancing can return
WellFormed(r, t) ==
    /\ t.orderId # "undefined" =>
           /\ r.built = "accepted" /\ Len(r.orders) >= 1
           /\ t.action # "hold" /\ t.success
    /\ t.orderSize # Undefined => t.action # "hold"
    /\ ~t.success <=> t.error # "undefined"

\* C39: every TradeRecord returned by executeRebalancing is well-formed:
\* orderId is present only if placeOrder was called and succeeded (so the
\* action is not hold and success is true), orderSize is present only if the
\* action is not hold, and success is false exactly when error is present.
C39_ReturnedRecordWellFormed ==
    \A i \in Slots :
        inv[i].pc = "returned" => WellFormed(inv[i], inv[i].result.tradeLog)

\* C39 (witness): records of all three kinds are returned: one with an order
\* id, one of a rejected order, or one of a failed cycle
C39_Witness ==
    /\ inv[1].pc = "returned"
    /\ inv[1].result.tradeLog.orderId # "undefined"
    /\ inv[1].result.tradeLog.orderSize # Undefined

C39_WitnessRejected ==
    /\ inv[1].pc = "returned"
    /\ inv[1].built = "rejected"
    /\ ~inv[1].result.tradeLog.success

C39_WitnessFailed ==
    /\ inv[1].pc = "returned"
    /\ inv[1].thrown # "none"
    /\ inv[1].result.tradeLog.error = inv[1].thrown

----------------------------------------------------------------------------
(* The day's log file under several logTrade calls: logger.ts:33-62 *)

MaxCalls == 3

\* the calls; call i is passed record i
LogCalls == 1 .. MaxCalls

\* pc: the await the call is suspended at; logs: its local array
NotCalled == [pc |-> "idle", logs |-> <<>>]

\* the records a sequence holds
Records(logs) == {logs[n] : n \in 1 .. Len(logs)}

\* the files the first call can find: none, an empty array, or the record 0
\* of an earlier call
LogFiles ==
    {[NoFile EXCEPT !.calls = [i \in LogCalls |-> NotCalled]]}
    \cup
    {[exists |-> TRUE, content |-> c, calls |-> [i \in LogCalls |-> NotCalled]] :
        c \in {<<>>, <<0>>}}

LogInit ==
    /\ config = [leverageMultiplier |-> 3, minAdjustmentSize |-> Scale \div 100,
                 dryRun |-> TRUE, hour |-> 0, minute |-> 1]
    /\ market = [equity |-> NaN, price |-> NaN, pos |-> NaN,
                 instType |-> "MARGIN", posSide |-> "long", ctVal |-> CtValDen]
    /\ clock = NoClock
    /\ running = FALSE
    /\ lastExecutionDate = NoDate
    /\ inv = [i \in Slots |-> Idle]
    /\ startedOn = <<>>
    /\ bootTime = NoBoot
    /\ calc = NoCall
    /\ client = NoRequest
    /\ cron = NoCron
    /\ env = NoEnv
    /\ sent = NoSent
    /\ logFile \in LogFiles
    /\ exited = FALSE

\* strategy.ts:343, 360  logTrade(tradeLog) is called: logger.ts:34 runs up
\* to the await inside initialize
logTrade(i) ==
    /\ logFile.calls[i].pc = "idle"
    /\ logFile' = [logFile EXCEPT !.calls[i].pc = "initialize"]
    /\ UNCHANGED <<config, market, clock, running, lastExecutionDate, inv, startedOn, bootTime, calc, client, cron, env, sent, exited>>

\* logger.ts:21-27, 34  initialize settles, logger.ts:40 issues the read
initialize(i) ==
    /\ logFile.calls[i].pc = "initialize"
    /\ logFile' = [logFile EXCEPT !.calls[i].pc = "readFile"]
    /\ UNCHANGED <<config, market, clock, running, lastExecutionDate, inv, startedOn, bootTime, calc, client, cron, env, sent, exited>>

\* logger.ts:38-47  the read settles: the parsed content, or the empty array
\* when the file is not there; the record is pushed and the write issued
readFile(i) ==
    /\ logFile.calls[i].pc = "readFile"
    /\ LET logs == IF logFile.exists THEN logFile.content ELSE <<>> IN
         logFile' = [logFile EXCEPT !.calls[i].pc = "writeFile",
                                    !.calls[i].logs = Append(logs, i)]
    /\ UNCHANGED <<config, market, clock, running, lastExecutionDate, inv, startedOn, bootTime, calc, client, cron, env, sent, exited>>

\* logger.ts:50-57  the write settles: the file holds the call's array, and
\* logTrade returns
writeFile(i) ==
    /\ logFile.calls[i].pc = "writeFile"
    /\ logFile' = [logFile EXCEPT !.exists = TRUE,
                                  !.content = logFile.calls[i].logs,
                                  !.calls[i].pc = "returned"]
    /\ UNCHANGED <<config, market, clock, running, lastExecutionDate, inv, startedOn, bootTime, calc, client, cron, env, sent, exited>>

\* logger.ts:58-61  the write rejects, logTrade rethrows
writeFileRejects(i) ==
    /\ logFile.calls[i].pc = "writeFile"
    /\ logFile' = [logFile EXCEPT !.calls[i].pc = "thrown"]
    /\ UNCHANGED <<config, market, clock, running, lastExecutionDate, inv, startedOn, bootTime, calc, client, cron, env, sent, exited>>

LogNext ==
    \E i \in LogCalls :
        \/ logTrade(i)
        \/ initialize(i)
        \/ readFile(i)
        \/ writeFile(i)
        \/ writeFileRejects(i)

LogSpec == LogInit /\ [][LogNext]_vars

\* every call has returned, thrown or not been made
AllCompleted == \A i \in LogCalls : logFile.calls[i].pc \in {"idle", "returned", "thrown"}

\* C40: logTrade appends without loss: once every logTrade call on the day
\* file has completed, also calls whose read and write steps interleaved, the
\* file holds every record passed to a call that returned.
C40_NoRecordLost ==
    AllCompleted =>
        \A i \in LogCalls :
            logFile.calls[i].pc = "returned" => i \in Records(logFile.content)

----------------------------------------------------------------------------
(* Properties of the timer loop (Spec) *)

\* C1: the timer loop starts at most one executeRebalancing per UTC date.
C1_AtMostOneStartPerDate ==
    \A d \in Days : startedOn[d] <= 1

Decided(i) == inv[i].got = Cardinality(Fetches)

AtOrAfterTarget(t) ==
    t.hour > config.hour \/ (t.hour = config.hour /\ t.minute >= config.minute)

BootedLate == running /\ AtOrAfterTarget(bootTime)

\* C12: a scheduler started at or after the target time marks that date as
\* executed and starts no invocation on it; on the following date the first
\* invocation is started by the first tick at or after the target time.
C12_LateStartSkipsToday ==
    BootedLate =>
        /\ startedOn[bootTime.day] = 0
        /\ clock.day = bootTime.day => lastExecutionDate = bootTime.day
        /\ clock.day = bootTime.day + 1 =>
              IF AtOrAfterTarget(clock) THEN startedOn[clock.day] >= 1
              ELSE startedOn[clock.day] = 0

\* started late, and the next date's invocation has been started
C12_Witness ==
    /\ BootedLate
    /\ clock.day = bootTime.day + 1
    /\ startedOn[clock.day] = 1
    /\ lastExecutionDate = bootTime.day

RunningBeforeTarget(d) ==
    running /\ (bootTime.day < d \/ (bootTime.day = d /\ ~AtOrAfterTarget(bootTime)))

\* C13: on every date the timer loop runs from before the target time on,
\* exactly one invocation is started, none before the target time and one
\* by the time it has come; a date that is over has had exactly one.
C13_ExactlyOneStartPerDate ==
    \A d \in Days :
        RunningBeforeTarget(d) =>
            /\ d < clock.day => startedOn[d] = 1
            /\ d = clock.day =>
                  IF AtOrAfterTarget(clock) THEN startedOn[d] = 1
                  ELSE startedOn[d] = 0

\* a scheduled invocation ends as a failure: a failed result is returned, or
\* the logging of the error record fails
FailedAttemptEnds(i) ==
    /\ inv[i].caller = "scheduler"
    /\ inv[i].pc \in {"logTrade", "logError"}
    /\ inv'[i].pc = "idle"
    /\ inv[i].pc = "logError" \/ ~inv[i].orderResult.success

\* C14: the step that ends a failed scheduled attempt, however it failed,
\* leaves the current date marked as executed.
C14_FailedAttemptMarksDate ==
    [][\A i \in Slots : FailedAttemptEnds(i) => lastExecutionDate' = clock.day]_vars

----------------------------------------------------------------------------
(* Properties of one rebalance cycle (RunSpec) *)

Ended(i) == inv[i].pc \in {"returned", "thrown"}

\* C2: with the dry-run flag set, a cycle never calls placeOrder.
C2_DryRunPlacesNoOrder ==
    config.dryRun => \A i \in Slots : inv[i].orders = <<>>

\* C3: one invocation of executeRebalancing calls placeOrder at most once, on
\* every path; an order goes out only for the one decision buy or sell.
C3_AtMostOneOrder ==
    \A i \in Slots :
        /\ Len(inv[i].orders) <= 1
        /\ (inv[i].orders # <<>> /\ inv[i].thrown = "none") =>
              /\ inv[i].got = Cardinality(Fetches)
              /\ inv[i].action \in {"buy", "sell"}
              /\ inv[i].orders[1].side = inv[i].action

\* the order went out, logging failed, the cycle is over
C3_Witness ==
    /\ Ended(1)
    /\ inv[1].thrown = "log"
    /\ Len(inv[1].orders) = 1

FailedRecord(error) ==
    [assetPrice |-> Fin(0), accountEquity |-> Fin(0), currentPosition |-> Fin(0),
     targetPosition |-> Fin(0), delta |-> Fin(0), action |-> "hold",
     orderSize |-> Undefined, orderId |-> "undefined",
     success |-> FALSE, error |-> error]

\* C4: once one of the three fetches has failed, whatever the other two did,
\* the cycle places no order and its TradeRecord has success = false, the
\* error, action hold and zero price, equity, position, target and delta;
\* that record is the one a returning cycle hands back.
C4_FetchFailureGivesZeroedRecord ==
    \A i \in Slots :
        inv[i].thrown \in Fetches =>
            /\ inv[i].orders = <<>>
            /\ inv[i].tradeLog = FailedRecord(inv[i].thrown)
            /\ inv[i].tradeLog.error # "undefined"
            /\ inv[i].pc = "returned" =>
                  inv[i].result = [success |-> FALSE,
                                   tradeLog |-> FailedRecord(inv[i].thrown),
                                   error |-> inv[i].thrown]

\* the position fetch failed against an exchange whose equity and price
\* are not zero, and the cycle has returned
C4_Witness ==
    /\ inv[1].pc = "returned"
    /\ inv[1].thrown = "position"
    /\ market.equity = Fin(12000)
    /\ market.price = Fin(2100)

\* C5: with a fetched price <= 0 no order is placed and the cycle ends with
\* success = false and an error.
C5_NonPositivePriceFails ==
    \A i \in Slots :
        (inv[i].got = Cardinality(Fetches) /\ IsFin(inv[i].assetPrice) /\ inv[i].assetPrice.v <= 0) =>
            /\ inv[i].orders = <<>>
            /\ inv[i].pc = "returned" =>
                  /\ ~inv[i].result.success
                  /\ inv[i].result.tradeLog.error # "undefined"

ScenarioA(i) ==
    /\ inv[i].got = Cardinality(Fetches)
    /\ inv[i].accountEquity = Fin(12000)
    /\ inv[i].assetPrice = Fin(2100)
    /\ inv[i].currentPosition = Fin(1500000)
    /\ config.leverageMultiplier = 3
    /\ config.minAdjustmentSize = 1000

IntactRecord(t) ==
    /\ t.assetPrice = market.price
    /\ t.accountEquity = market.equity
    /\ t.currentPosition \in {getPosition("ok"), getPosition("failed")}
    /\ t.targetPosition = calculateTargetPosition(market.equity, market.price)
    /\ t.delta = calculatePositionDelta(t.currentPosition, t.targetPosition).delta
    /\ t.action = calculatePositionDelta(t.currentPosition, t.targetPosition).action

\* C15: once placeOrder has failed, the cycle calls placeOrder no more, and
\* the result it ends with has success = false, the order's error message,
\* and the fetched and computed fields as they were.
C15_OrderFailureKeepsRecord ==
    \A i \in Slots :
        inv[i].built = "rejected" =>
            /\ Len(inv[i].orders) = 1
            /\ Ended(i) =>
                  /\ inv[i].pc = "returned"
                  /\ ~inv[i].result.success
                  /\ inv[i].result.error = "order"
                  /\ inv[i].result.tradeLog.error = "order"
                  /\ ~inv[i].result.tradeLog.success
                  /\ inv[i].result.tradeLog.action \in {"buy", "sell"}
                  /\ IntactRecord(inv[i].result.tradeLog)

\* C16: once the decision is hold, the cycle calls placeOrder at no time and
\* the result it ends with has success = true and neither orderSize nor
\* orderId.
C16_HoldPlacesNoOrder ==
    \A i \in Slots :
        inv[i].built = "hold" =>
            /\ inv[i].orders = <<>>
            /\ Ended(i) =>
                  /\ inv[i].pc = "returned"
                  /\ inv[i].result.success
                  /\ inv[i].result.tradeLog.success
                  /\ inv[i].result.tradeLog.action = "hold"
                  /\ inv[i].result.tradeLog.orderSize = Undefined
                  /\ inv[i].result.tradeLog.orderId = "undefined"

\* C17: once the order has been accepted, the result the cycle ends with has
\* success = true, the order id, and the fetched and computed fields,
\* whether or not logTrade fails afterwards.
C17_AcceptedOrderReportedAsSuccess ==
    \A i \in Slots :
        (inv[i].built = "accepted" /\ Ended(i)) =>
            /\ inv[i].pc = "returned"
            /\ inv[i].result.success
            /\ inv[i].result.tradeLog.success
            /\ inv[i].result.tradeLog.orderId = "ordId"
            /\ inv[i].result.tradeLog.action \in {"buy", "sell"}
            /\ IntactRecord(inv[i].result.tradeLog)

\* C18: an invocation of executeRebalancing that has ended has returned a
\* result with its TradeRecord; none ends by an exception.
C18_AlwaysReturnsRecord ==
    \A i \in Slots :
        Ended(i) =>
            /\ inv[i].pc = "returned"
            /\ inv[i].result.tradeLog = inv[i].tradeLog
            /\ inv[i].result.tradeLog # NoLog

\* C19: for a long position of a SWAP instrument whose getInstrument lookup
\* succeeded, the position the cycle goes on with is the contract count
\* times ctVal.
C19_SwapPositionTimesCtVal ==
    \A i \in Slots :
        (Decided(i) /\ LookupNeeded /\ inv[i].instrument = "ok") =>
            /\ IsFin(inv[i].currentPosition)
            /\ inv[i].currentPosition.v * CtValDen = market.pos.v * market.ctVal

\* 15 contracts of 0.1 each are a position of 1.5
C19_Witness ==
    /\ Decided(1)
    /\ LookupNeeded /\ inv[1].instrument = "ok"
    /\ market.pos = Fin(1500000) /\ market.ctVal = 1
    /\ inv[1].currentPosition = Fin(150000)
    /\ inv[1].pc = "returned"

\* C20: a failed getInstrument lookup does not fail the position fetch or the
\* cycle: fetching goes on, no position error can follow, and the cycle
\* decides on the raw contract count.
C20_LookupFailureFallsBack ==
    [][\A i \in Slots :
         /\ (inv[i].instrument = "none" /\ inv'[i].instrument = "failed") =>
               /\ inv'[i].pc = "fetching"
               /\ inv'[i].thrown = "none"
         /\ inv[i].instrument = "failed" => inv'[i].thrown # "position"
         /\ (inv'[i].instrument = "failed" /\ inv'[i].pc # "fetching") =>
               /\ Decided(i)'
               /\ inv'[i].currentPosition = market.pos
               /\ inv'[i].targetPosition =
                     calculateTargetPosition(market.equity, market.price)
               /\ inv'[i].action =
                     calculatePositionDelta(market.pos, inv'[i].targetPosition).action]_vars

\* the lookup failed on contracts of 0.1 each; the cycle decided on the
\* contract count and returned
C20_Witness ==
    /\ inv[1].instrument = "failed"
    /\ inv[1].pc = "returned"
    /\ market.ctVal = 1
    /\ market.pos = Fin(1500000)
    /\ inv[1].currentPosition = Fin(1500000)
    /\ inv[1].result.tradeLog.currentPosition = Fin(1500000)

----------------------------------------------------------------------------
(* Properties of the exchange client (ClientSpec) *)

\* C21: an operation whose response body has a code other than "0" throws,
\* whatever the HTTP status; getAccountEquity also throws when the first data
\* entry or its totalEq is missing.  None of them returns then.
C21_NonZeroCodeThrows ==
    client.pc = "settled" =>
        /\ client.code # "0" => client.outcome = Throws
        /\ (/\ client.op = "getAccountEquity"
            /\ client.data \in {"empty", "entryWithoutField", "entryEmptyField"})
           => client.outcome = Throws

\* HTTP 200 with code "0" and no totalEq: getAccountEquity has thrown
C21_Witness ==
    /\ client.pc = "settled"
    /\ client.op = "getAccountEquity"
    /\ client.http = 200 /\ client.code = "0"
    /\ client.data = "entryWithoutField"
    /\ client.outcome = Throws

----------------------------------------------------------------------------
(* Properties of startup (ParseSpec) *)

\* a field that is a decimal integer between lo and hi
IntegerField(str, lo, hi) ==
    /\ str # <<>>
    /\ DigitPrefix(str) = str
    /\ DecimalValue(str) >= lo /\ DecimalValue(str) <= hi

\* "minute hour * * *"
DailySchedule(cronSchedule) ==
    LET parts == split(cronSchedule)
    IN /\ Len(parts) = 5
       /\ IntegerField(parts[1], 0, 59)
       /\ IntegerField(parts[2], 0, 23)
       /\ \A k \in 3 .. 5 : parts[k] = <<"*">>

\* C22: a schedule string is accepted only if it has exactly 5 fields, an
\* integer minute in 0..59, an integer hour in 0..23 and "*" in the other
\* three; with any other string startup ends before the timer loop starts.
C22_OnlyDailySchedulesAccepted ==
    /\ cron.pc = "parsed" => DailySchedule(cron.cronSchedule)
    /\ running => DailySchedule(cron.cronSchedule)
    /\ (cron.pc = "exited") => ~running
    /\ (cron.pc \in {"parsed", "exited"} /\ ~DailySchedule(cron.cronSchedule))
          => cron.pc = "exited"

----------------------------------------------------------------------------
(* Termination of a cycle (LiveRunSpec) *)

\* C23: every invocation of executeRebalancing eventually completes, also when
\* the exchange never answers one of its requests.
C23_EveryInvocationCompletes == (inv[1].pc = "fetching") ~> Ended(1)

----------------------------------------------------------------------------
(* Invocations started by the timer loop (Spec) *)

\* started by the setInterval callback and not yet back in runRebalancing
InFlight(i) == inv[i].caller = "scheduler" /\ inv[i].pc # "idle"

\* C24: the invocations started by the timer loop are sequential: never are
\* two of them in flight at the same time.
C24_NoTwoInvocationsInFlight ==
    \A i, j \in Slots : (InFlight(i) /\ InFlight(j)) => i = j

\* dates on which a tick has started an invocation
TickDates == {d \in Days : startedOn[d] >= 1}

\* C25: when an invocation started by a tick has returned, the date stored in
\* lastExecutionDate is the date of the tick that started it, also when the
\* invocation returns after midnight: the stored date is never a date on
\* which no tick started an invocation.
C25_StoredDateIsTickDate ==
    [][\A i \in Slots :
          (inv[i].caller = "scheduler" /\ LogResolves(i))
          => lastExecutionDate' \in TickDates]_vars

----------------------------------------------------------------------------
(* Order of the steps of one cycle (RunSpec) *)

\* C27: within one invocation the steps come in the order fetch, decide, then
\* either place the order or hold, then record.  No order is out while the
\* fetches are pending or after one of them failed, or before the decision;
\* the record is built only once the outcome of the order, if any, is known;
\* a cycle that holds places no order.
C27_PhasesInOrder ==
    \A i \in Slots :
        LET r == inv[i] IN
        /\ r.pc = "fetching" => (r.orders = <<>> /\ r.built = "none" /\ ~Decided(i))
        /\ r.thrown \in Fetches => (r.orders = <<>> /\ r.built = "none")
        /\ (r.orders # <<>> /\ r.thrown = "none") =>
              (Decided(i) /\ r.targetPosition # Undefined /\ r.action \in {"buy", "sell"})
        /\ r.pc = "placeOrder" =>
              (r.built = "none" /\ r.tradeLog = NoLog /\ r.orderResult = NoOrderResult)
        /\ r.pc = "logTrade" => (Decided(i) /\ r.built # "none" /\ r.tradeLog # NoLog)
        /\ r.built \in {"accepted", "rejected"} => Len(r.orders) = 1
        /\ (r.built \in {"accepted", "rejected"} /\ r.thrown = "none") =>
              r.orderResult # NoOrderResult
        /\ r.built = "hold" => r.orders = <<>>

\* the order was placed and rejected, and the record has been built after it
C27_Witness ==
    /\ inv[1].pc = "logTrade"
    /\ inv[1].built = "rejected"
    /\ Len(inv[1].orders) = 1
    /\ ~inv[1].orderResult.success

----------------------------------------------------------------------------
(* The order request (RunSpec) *)

\* C28: every order request of a cycle is a market order on the configured
\* instrument in isolated margin mode on the long side; its side is the
\* decision's action, buy or sell, and its size is the absolute value of the
\* delta the calculator returned; the record built afterwards carries that
\* size.  A cycle that decided to hold has sent no request.
C28_OrderRequestFields ==
    \A i \in Slots :
        LET r == inv[i] IN
        /\ \A k \in 1 .. Len(r.orders) :
              /\ r.orders[k].instId = "SWAP"
              /\ r.orders[k].ordType = "market"
              /\ r.orders[k].tdMode = "isolated"
              /\ r.orders[k].posSide = "long"
              /\ r.orders[k].side \in {"buy", "sell"}
              /\ r.thrown = "none" =>
                    /\ r.orders[k].side = r.action
                    /\ r.orders[k].sz = MathAbs(r.delta)
                    /\ r.built # "none" => r.tradeLog.orderSize = r.orders[k].sz
        /\ (Decided(i) /\ r.action = "hold") => r.orders = <<>>

\* a sell of 15 units is pending
C28_Witness ==
    /\ inv[1].pc = "placeOrder"
    /\ inv[1].action = "sell"
    /\ inv[1].delta = Fin(0 - 1500000)
    /\ inv[1].orders[1].side = "sell"
    /\ inv[1].orders[1].sz = Fin(1500000)

----------------------------------------------------------------------------
(* A filled order and the next run (FillSpec) *)

\* the first run's order was accepted and filled, and the second run has
\* read the account, both with the instrument looked up
SecondRunDecided ==
    /\ inv[1].pc = "returned" /\ inv[1].built = "accepted" /\ inv[1].thrown = "none"
    /\ inv[1].instrument = "ok"
    /\ Decided(2) /\ inv[2].instrument = "ok"

\* C29: after a cycle's order has been accepted and filled in full by an
\* exchange that counts the size in contracts, with equity and price
\* unchanged, the next cycle reads the previous target as its position and
\* holds, whatever the per-contract value.
C29_FilledOrderReachesTarget ==
    SecondRunDecided =>
        /\ inv[2].currentPosition = inv[1].targetPosition
        /\ inv[2].action = "hold"

----------------------------------------------------------------------------
(* Effects of a cycle other than the exchange calls (RunSpec) *)

\* C30: executeRebalancing never writes to storage: no invocation has had a
\* record written to the trade log file.
C30_CycleWritesNothing ==
    \A i \in Slots : ~inv[i].written

----------------------------------------------------------------------------
(* The loaded configuration (LoadSpec) *)

\* C31: whatever LEVERAGE_MULTIPLIER and MIN_ADJUSTMENT_SIZE are set to, the
\* loaded configuration has leverage > 0 and minAdjustment >= 0.
C31_LoadedConfigInRange ==
    env.pc = "loaded" =>
        /\ config.leverageMultiplier > 0
        /\ config.minAdjustmentSize >= 0

----------------------------------------------------------------------------
(* Signed requests (SignSpec) *)

\* C33: every request sent through the authenticated client carries as its
\* timestamp the clock read for that request, never that of an earlier one,
\* and a signature over exactly that timestamp, the upper-case method, the
\* path with its query string and the serialized body, empty without a body.
C33_SignedAtSendTime ==
    \A k \in 1 .. Len(sent) :
        LET q == sent[k] IN
        /\ q.headers.timestamp = q.at
        /\ q.headers.sign =
              Hmac("secretKey",
                   <<q.at,
                     IF q.request.method = "post" THEN "POST" ELSE "GET",
                     q.request.url,
                     IF q.request.data = <<>> THEN <<>> ELSE JSONstringify(q.request.data[1])>>)

\* a GET with a query string and, later, a POST with a body have gone out
C33_Witness ==
    /\ Len(sent) = 2
    /\ sent[1].request.method = "get" /\ sent[1].request.url = "/api/v5/market/ticker?instId=SWAP"
    /\ sent[2].request.method = "post"
    /\ sent[1].at # sent[2].at
    /\ sent[2].headers.timestamp = sent[2].at

----------------------------------------------------------------------------
(* Shutdown (SignalSpec) *)

\* C34: once a shutdown signal has been handled the timer loop is stopped and
\* no invocation is started any more; an invocation in flight is not waited
\* for: it makes no further step.
C34_NothingStartsAfterShutdown ==
    [][/\ exited' => ~running'
       /\ exited => (exited' /\ startedOn' = startedOn /\ inv' = inv)]_vars

\* the signal was handled while an order was awaiting its answer
C34_Witness ==
    /\ exited /\ ~running
    /\ \E i \in Slots : inv[i].pc = "placeOrder" /\ inv[i].caller = "scheduler"

----------------------------------------------------------------------------
(* Missing numbers (NanSpec) *)

\* C35: a cycle never returns success = true on a fetched equity, price or
\* position that is not a finite number.
C35_NoSuccessOnMissingValue ==
    \A i \in Slots :
        (inv[i].pc = "returned" /\ inv[i].result.success) =>
            /\ IsFin(inv[i].result.tradeLog.accountEquity)
            /\ IsFin(inv[i].result.tradeLog.assetPrice)
            /\ IsFin(inv[i].result.tradeLog.currentPosition)

----------------------------------------------------------------------------
(* Time of day of the starts (Spec) *)

\* C36: the timer loop starts no invocation at a time of day earlier than
\* the configured hour:minute: a date whose target time has not come has had
\* no start.
C36_NoStartBeforeTarget ==
    \A d \in Days :
        (d > clock.day \/ (d = clock.day /\ ~AtOrAfterTarget(clock))) => startedOn[d] = 0

\* with the schedule 01:00 the ticks of 00:00 and 00:01 of the second date
\* have started nothing and the tick of 01:00 has
C36_Witness ==
    /\ <<config.hour, config.minute>> = <<1, 0>>
    /\ clock = [day |-> 1, hour |-> 1, minute |-> 0]
    /\ bootTime.day = 0
    /\ startedOn[1] = 1

====
